---- MODULE Spec2Model ----
(***************************************************************************)
(* IFTMINParser (src/streamlit_app.py): the segment-stream parser and the  *)
(* shipment aggregator.  A Python str is modelled as a sequence of         *)
(* one-character strings, so that startswith, split, replace, strip and    *)
(* slicing are computed character by character as the code computes them. *)
(* A Python dict is a function whose DOMAIN is the set of keys present.    *)
(***************************************************************************)
EXTENDS Integers, Sequences, FiniteSets, TLC

\* ---------------------------------------------------------------- str ----
\* str.startswith(prefix)
StartsWith(s, p) == Len(s) >= Len(p) /\ SubSeq(s, 1, Len(p)) = p

\* ch in s
Contains(s, ch) == \E i \in 1..Len(s) : s[i] = ch

\* str.replace(a, b) for one-character a and b
Replace(s, a, b) == [i \in 1..Len(s) |-> IF s[i] = a THEN b ELSE s[i]]

\* str.split(sep) for a one-character sep: always at least one piece
Split(s, sep) ==
  LET RECURSIVE F(_, _, _)
      F(i, cur, acc) ==
        IF i > Len(s) THEN Append(acc, cur)
        ELSE IF s[i] = sep THEN F(i + 1, <<>>, Append(acc, cur))
        ELSE F(i + 1, Append(cur, s[i]), acc)
  IN F(1, <<>>, <<>>)

\* sep.join(pieces)
Join(pieces, sep) ==
  LET RECURSIVE F(_)
      F(i) == IF i > Len(pieces) THEN <<>>
              ELSE IF i = Len(pieces) THEN pieces[i]
              ELSE pieces[i] \o sep \o F(i + 1)
  IN F(1)

Whitespace == {" ", "\t", "\r", "\n"}

\* bool(segment.strip()): the segment has a non-whitespace character
StripTruthy(s) == \E i \in 1..Len(s) : s[i] \notin Whitespace

\* --------------------------------------------------------------- dict ----
EmptyDict == [k \in {} |-> <<>>]
Put(d, k, v) == [x \in (DOMAIN d) \cup {k} |-> IF x = k THEN v ELSE d[x]]
Has(d, k) == k \in DOMAIN d
\* truth value of a dict: non-empty
Truthy(d) == DOMAIN d # {}

\* ------------------------------------------------- prefixes, literals ----
P_UNB == <<"U", "N", "B">>
P_BGM == <<"B", "G", "M">>
P_DTM9 == <<"D", "T", "M", "+", "9">>
P_CUX == <<"C", "U", "X">>
P_NADSF == <<"N", "A", "D", "+", "S", "F">>
P_NADIV == <<"N", "A", "D", "+", "I", "V">>
P_LOC198 == <<"L", "O", "C", "+", "1", "9", "8">>
P_GID1 == <<"G", "I", "D", "+", "1">>
P_GID2 == <<"G", "I", "D", "+", "2">>
P_NADCN == <<"N", "A", "D", "+", "C", "N">>
P_RFFCR == <<"R", "F", "F", "+", "C", "R">>
P_RFFTB == <<"R", "F", "F", "+", "T", "B">>
P_RFFTE == <<"R", "F", "F", "+", "T", "E">>
P_DTM17 == <<"D", "T", "M", "+", "1", "7">>
P_MEA == <<"M", "E", "A", "+", "W", "X", "+", "B", "+", "K", "G">>
P_DIM == <<"D", "I", "M", "+", "2", "+", "C", "M", "T">>
P_RFFVP == <<"R", "F", "F", "+", "V", "P">>
P_CNT2 == <<"C", "N", "T", "+", "2">>
P_CNT8 == <<"C", "N", "T", "+", "8">>
DefaultShipper == <<"W", "T", "A", "M">>
DefaultInvoicee == <<"A", "M", "A", "Z", "O", "N", " ", "E", "U", " ", "S", "A", "R", "L">>
UnitSuffix == <<" ", "c", "m">>

\* ----------------------------------------------------------- decoders ----
\* month before day
FormatDate_MonthFirst(d) ==
  IF Len(d) >= 8
  THEN SubSeq(d, 5, 6) \o <<".">> \o SubSeq(d, 7, 8) \o <<".">> \o SubSeq(d, 1, 4)
  ELSE d

\* _format_date: slices [6:8], [4:6], [:4] of an input of length >= 8
FormatDate(d) ==
  IF Len(d) >= 8
  THEN SubSeq(d, 7, 8) \o <<".">> \o SubSeq(d, 5, 6) \o <<".">> \o SubSeq(d, 1, 4)
  ELSE d

\* a field the list does not reach
FieldOrEmpty(parts, i) == IF Len(parts) >= i THEN parts[i] ELSE <<>>

\* every attribute is set, to '' where the field list is too short
ParseAddress_Padded(parts, default_name) ==
  [k \in {"name", "street", "city", "district", "postal_code", "country"} |->
     CASE k = "name" -> IF FieldOrEmpty(parts, 5) # <<>> THEN parts[5] ELSE default_name
       [] k = "street" -> Replace(FieldOrEmpty(parts, 6), ":", " ")
       [] k = "city" -> FieldOrEmpty(parts, 7)
       [] k = "district" -> FieldOrEmpty(parts, 8)
       [] k = "postal_code" -> FieldOrEmpty(parts, 9)
       [] OTHER -> FieldOrEmpty(parts, 10)]

\* the default name wins over the name of the segment
ParseAddress_DefaultFirst(parts, default_name) ==
  LET a1 == IF Len(parts) >= 5
            THEN Put(EmptyDict, "name",
                     IF default_name # <<>> THEN default_name ELSE parts[5])
            ELSE EmptyDict
      a2 == IF Len(parts) >= 6
            THEN Put(a1, "street", Replace(parts[6], ":", " ")) ELSE a1
      a3 == IF Len(parts) >= 7 THEN Put(a2, "city", parts[7]) ELSE a2
      a4 == IF Len(parts) >= 8 THEN Put(a3, "district", parts[8]) ELSE a3
      a5 == IF Len(parts) >= 9 THEN Put(a4, "postal_code", parts[9]) ELSE a4
  IN IF Len(parts) >= 10 THEN Put(a5, "country", parts[10]) ELSE a5

\* _parse_address: parts[4] .. parts[9] are parts[5] .. parts[10] here
ParseAddress(parts, default_name) ==
  LET a1 == IF Len(parts) >= 5
            THEN Put(EmptyDict, "name",
                     IF parts[5] # <<>> THEN parts[5] ELSE default_name)
            ELSE EmptyDict
      a2 == IF Len(parts) >= 6
            THEN Put(a1, "street", Replace(parts[6], ":", " ")) ELSE a1
      a3 == IF Len(parts) >= 7 THEN Put(a2, "city", parts[7]) ELSE a2
      a4 == IF Len(parts) >= 8 THEN Put(a3, "district", parts[8]) ELSE a3
      a5 == IF Len(parts) >= 9 THEN Put(a4, "postal_code", parts[9]) ELSE a4
  IN IF Len(parts) >= 10 THEN Put(a5, "country", parts[10]) ELSE a5

\* the portion of a field before the first ":" (x.split(':')[0] if ':' in x else x)
BeforeColon(x) == IF Contains(x, ":") THEN Split(x, ":")[1] ELSE x

\* x.split(':')[1] if ':' in x else x
QualifiedValue(x) == IF Contains(x, ":") THEN Split(x, ":")[2] ELSE x

\* parts[2] if len(parts) > 2 else ''
ThirdField(parts) == IF Len(parts) > 2 THEN parts[3] ELSE <<>>

\* ---------------------------------------------------------- tokenizer ----
\* data.replace("'", "\n"), split('\n'), keep the segments with segment.strip()
Tokenize(data) ==
  SelectSeq(Split(Replace(data, "'", "\n"), "\n"), StripTruthy)

\* ------------------------------------------------------------- header ----
\* parts[2] and parts[3] of a UNB segment are read without a length test
HeaderSegRaises(seg) == StartsWith(seg, P_UNB) /\ Len(Split(seg, "+")) < 4

HeaderRaises(segs) == \E i \in 1..Len(segs) : HeaderSegRaises(segs[i])

\* a segment of no known kind is kept in the header
HeaderSeg_KeepsUnknown(h, seg) ==
  LET parts == Split(seg, "+") IN
  IF StartsWith(seg, P_UNB)
  THEN Put(Put(h, "sender", BeforeColon(parts[3])), "receiver", BeforeColon(parts[4]))
  ELSE IF StartsWith(seg, P_BGM) THEN Put(h, "doc_number", ThirdField(parts))
  ELSE IF StartsWith(seg, P_DTM9)
  THEN Put(h, "message_date", FormatDate(QualifiedValue(parts[2])))
  ELSE IF StartsWith(seg, P_CUX)
  THEN (IF Len(parts) > 2 THEN Put(h, "currency", parts[3]) ELSE h)
  ELSE Put(h, "unknown", seg)

\* one iteration of the loop of _parse_header, for a segment that does not raise
HeaderSeg(h, seg) ==
  LET parts == Split(seg, "+") IN
  IF StartsWith(seg, P_UNB)
  THEN Put(Put(h, "sender", BeforeColon(parts[3])), "receiver", BeforeColon(parts[4]))
  ELSE IF StartsWith(seg, P_BGM) THEN Put(h, "doc_number", ThirdField(parts))
  ELSE IF StartsWith(seg, P_DTM9)
  THEN Put(h, "message_date", FormatDate(QualifiedValue(parts[2])))
  ELSE IF StartsWith(seg, P_CUX)
  THEN (IF Len(parts) > 2 THEN Put(h, "currency", parts[3]) ELSE h)
  ELSE h

RECURSIVE HeaderFrom(_, _, _)
HeaderFrom(h, segs, i) ==
  IF i > Len(segs) THEN h ELSE HeaderFrom(HeaderSeg(h, segs[i]), segs, i + 1)

\* _parse_header over the whole segment list
ParseHeaderPass(segs) == HeaderFrom(EmptyDict, segs, 1)

\* ------------------------------------------------------------ parties ----
PartiesSeg(p, seg) ==
  LET parts == Split(seg, "+") IN
  IF StartsWith(seg, P_NADSF)
  THEN Put(p, "shipper", ParseAddress(parts, DefaultShipper))
  ELSE IF StartsWith(seg, P_NADIV)
  THEN Put(p, "invoicee", ParseAddress(parts, DefaultInvoicee))
  ELSE IF StartsWith(seg, P_LOC198) THEN Put(p, "node_id", ThirdField(parts))
  ELSE p

RECURSIVE PartiesFrom(_, _, _)
PartiesFrom(p, segs, i) ==
  IF i > Len(segs) THEN p ELSE PartiesFrom(PartiesSeg(p, segs[i]), segs, i + 1)

ParsePartiesPass(segs) == PartiesFrom(EmptyDict, segs, 1)

\* ------------------------------------------------------------ summary ----
\* parts[1].split(':')[1] if ':' in parts[1] else ''
CountValue(x) == IF Contains(x, ":") THEN Split(x, ":")[2] ELSE <<>>

SummarySeg(s, seg) ==
  LET parts == Split(seg, "+") IN
  IF StartsWith(seg, P_CNT2) THEN Put(s, "total_packages", CountValue(parts[2]))
  ELSE IF StartsWith(seg, P_CNT8) THEN Put(s, "total_shipments", CountValue(parts[2]))
  ELSE s

RECURSIVE SummaryFrom(_, _, _)
SummaryFrom(s, segs, i) ==
  IF i > Len(segs) THEN s ELSE SummaryFrom(SummarySeg(s, segs[i]), segs, i + 1)

ParseSummaryPass(segs) == SummaryFrom(EmptyDict, segs, 1)

\* ---------------------------------------------------------- shipments ----
\* segment.startswith('GID+1') or segment.startswith('GID+2')
IsOpen(seg) == StartsWith(seg, P_GID1) \/ StartsWith(seg, P_GID2)

\* the items key is set only when an identifier was read
CloseShipment_SkipEmpty(cur, its) == IF its # <<>> THEN Put(cur, "items", its) ELSE cur

\* current_shipment['items'] = items.copy()
CloseShipment(cur, its) == Put(cur, "items", its)

\* the closed shipment is put in front
AppendShipment_Prepend(ships, s) == <<s>> \o ships

\* result['shipments'].append(...)
AppendShipment(ships, s) == Append(ships, s)

\* the first sub-field, the unit code, is joined too
Dimensions_KeepFirst(field) ==
  LET dims == IF Contains(field, ":") THEN Split(field, ":") ELSE <<>>
  IN IF dims # <<>> THEN Join(dims, <<"x">>) \o UnitSuffix ELSE <<>>

\* 'x'.join(dims) + ' cm' if dims else '', dims the sub-fields after the first
Dimensions(field) ==
  LET dims == IF Contains(field, ":") THEN Tail(Split(field, ":")) ELSE <<>>
  IN IF dims # <<>> THEN Join(dims, <<"x">>) \o UnitSuffix ELSE <<>>

\* one iteration of the loop of _parse_shipments; st holds the two locals
\* current_shipment (cur) and items, and result['shipments'] (ships)
ShipmentSeg(st, seg) ==
  LET parts == Split(seg, "+")
      cur == st.cur
  IN
  IF IsOpen(seg)
  THEN LET flushed == IF Truthy(cur)
                      THEN [cur |-> EmptyDict, items |-> <<>>,
                            ships |-> AppendShipment(st.ships, CloseShipment(cur, st.items))]
                      ELSE st
       IN IF Len(parts) > 2
          THEN [flushed EXCEPT !.cur = Put(flushed.cur, "total_packages",
                                           Split(parts[3], ":")[1])]
          ELSE flushed
  ELSE IF StartsWith(seg, P_NADCN)
  THEN [st EXCEPT !.cur = Put(cur, "consignee", ParseAddress(parts, <<>>))]
  ELSE IF StartsWith(seg, P_RFFCR)
  THEN [st EXCEPT !.cur = Put(cur, "tracking_number", ThirdField(parts))]
  ELSE IF StartsWith(seg, P_RFFTB)
  THEN [st EXCEPT !.cur = Put(cur, "order_id", ThirdField(parts))]
  ELSE IF StartsWith(seg, P_RFFTE)
  THEN [st EXCEPT !.cur = Put(cur, "phone", ThirdField(parts))]
  ELSE IF StartsWith(seg, P_DTM17)
  THEN [st EXCEPT !.cur = Put(cur, "delivery_date", FormatDate(QualifiedValue(parts[2])))]
  ELSE IF StartsWith(seg, P_MEA)
  THEN [st EXCEPT !.cur = Put(cur, "weight", IF Len(parts) > 3 THEN parts[4] ELSE <<>>)]
  ELSE IF StartsWith(seg, P_DIM)
  THEN [st EXCEPT !.cur = Put(cur, "dimensions", Dimensions(parts[3]))]
  ELSE IF StartsWith(seg, P_RFFVP)
  THEN (IF Len(parts) > 2 THEN [st EXCEPT !.items = Append(st.items, parts[3])] ELSE st)
  ELSE st

\* after the loop: "Add the last shipment"
LastShipment(st) ==
  IF Truthy(st.cur)
  THEN [st EXCEPT !.ships = AppendShipment(st.ships, CloseShipment(st.cur, st.items))]
  ELSE st

\* ------------------------------------------------------------- inputs ----
SegOpenA == <<"G", "I", "D", "+", "1", "+", "2", ":", "P", "K">>
SegOpenB == <<"G", "I", "D", "+", "2", "+", "3">>
SegOpenBare == <<"G", "I", "D", "+", "2">>
SegItemA == <<"R", "F", "F", "+", "V", "P", "+", "A">>
SegItemB == <<"R", "F", "F", "+", "V", "P", "+", "B">>
SegItemBare == <<"R", "F", "F", "+", "V", "P">>
SegConsignee == <<"N", "A", "D", "+", "C", "N", "+", "+", "+", "N", "+", "S", ":", "1">>
SegTracking == <<"R", "F", "F", "+", "C", "R", "+", "T">>
SegOrder == <<"R", "F", "F", "+", "T", "B", "+", "O">>
SegPhone == <<"R", "F", "F", "+", "T", "E", "+", "P">>
SegDelivery == <<"D", "T", "M", "+", "1", "7", ":", "2", "0", "2", "5", "1", "0", "1", "7">>
SegWeight == <<"M", "E", "A", "+", "W", "X", "+", "B", "+", "K", "G", "+", "5">>
SegDims == <<"D", "I", "M", "+", "2", "+", "C", "M", "T", ":", "1", ":", "2">>
SegEnvelope == <<"U", "N", "B", "+", "U", "+", "S", ":", "1", "+", "R">>
SegEnvelopeShort == <<"U", "N", "B", "+", "U", "+", "S">>
SegDocRef == <<"B", "G", "M", "+", "1", "+", "D">>
SegMsgDate == <<"D", "T", "M", "+", "9", ":", "2", "0", "2", "5", "0", "1", "0", "2">>
SegCurrency == <<"C", "U", "X", "+", "2", "+", "E", "U", "R">>
SegShipper == <<"N", "A", "D", "+", "S", "F", "+", "+", "+">>
SegInvoicee == <<"N", "A", "D", "+", "I", "V", "+", "+", "+", "I">>
SegNode == <<"L", "O", "C", "+", "1", "9", "8", "+", "K">>
SegCnt2 == <<"C", "N", "T", "+", "2", ":", "5">>
SegCnt8 == <<"C", "N", "T", "+", "8">>
SegFreeText == <<"F", "T", "X", "+", "X">>
SegBlank == <<" ">>

\* the longest message of shipment segments, and of segments of every kind
MaxSegs == 4
MaxFieldSegs == 2
\* the longest message of each of two concurrent calls
MaxConcSegs == 2

CoreCatalog == {SegOpenA, SegOpenB, SegOpenBare, SegItemA, SegItemB,
                SegTracking, SegFreeText}

FullCatalog == CoreCatalog \cup
               {SegItemBare, SegConsignee, SegOrder, SegPhone, SegDelivery,
                SegWeight, SegDims, SegEnvelope, SegEnvelopeShort, SegDocRef,
                SegMsgDate, SegCurrency, SegShipper, SegInvoicee, SegNode,
                SegCnt2, SegCnt8, SegBlank}

ConcCatalog == {SegOpenA, SegItemA, SegDocRef, SegEnvelopeShort}

SeqsUpTo(S, n) == UNION {[1..k -> S] : k \in 0..n}

\* the raw message: every segment followed by the terminator
RECURSIVE RawOf(_)
RawOf(q) == IF q = <<>> THEN <<>> ELSE Head(q) \o <<"'">> \o RawOf(Tail(q))

Messages == {RawOf(q) : q \in SeqsUpTo(CoreCatalog, MaxSegs)}
              \cup {RawOf(q) : q \in SeqsUpTo(FullCatalog, MaxFieldSegs)}

ConcMessages == {RawOf(q) : q \in SeqsUpTo(ConcCatalog, MaxConcSegs)}

\* ------------------------------------------------------ state machine ----
Calls == {1, 2}
Instances == {1, 2}

VARIABLES
  data,              \* data[c]: the argument of call c
  inst,              \* inst[c]: the IFTMINParser instance call c runs on
  pc,                \* pc[c]: where call c stands in parse_iftmin
  segments,          \* segments[i]: self.segments of instance i
  result,            \* result[c]: the local result of call c
  iter,              \* iter[c]: the list the loop of _parse_shipments walks
  idx,               \* idx[c]: the position of that loop
  current_shipment,  \* current_shipment[c]: local of _parse_shipments
  items,             \* items[c]: local of _parse_shipments
  pending,           \* pending[c]: the passes call c has still to run, when
                     \* the four calls of lines 22-25 are taken in any order
  date_str,          \* the argument of a direct call of _format_date
  formatted          \* what _format_date returned, applied once and again

vars == <<data, inst, pc, segments, result, iter, idx, current_shipment, items,
          pending, date_str, formatted>>

EmptyResult == [header |-> EmptyDict, parties |-> EmptyDict,
                shipments |-> <<>>, summary |-> EmptyDict]

InitLocals ==
  /\ segments = [i \in Instances |-> <<>>]
  /\ result = [c \in Calls |-> EmptyResult]
  /\ iter = [c \in Calls |-> <<>>]
  /\ idx = [c \in Calls |-> 1]
  /\ current_shipment = [c \in Calls |-> EmptyDict]
  /\ items = [c \in Calls |-> <<>>]
  /\ pending = [c \in Calls |-> {}]

\* no direct call of _format_date
NoDateCall == date_str = <<>> /\ formatted = <<>>

\* one call on a fresh instance
Init ==
  /\ \E m \in Messages : data = [c \in Calls |-> IF c = 1 THEN m ELSE <<>>]
  /\ inst = [c \in Calls |-> c]
  /\ pc = [c \in Calls |-> IF c = 1 THEN "start" ELSE "off"]
  /\ InitLocals
  /\ NoDateCall

\* two calls over distinct inputs, on one instance or on two
InitConc ==
  /\ data \in [Calls -> ConcMessages]
  /\ data[1] # data[2]
  /\ \E i \in Instances : inst = [c \in Calls |-> IF c = 1 THEN 1 ELSE i]
  /\ pc = [c \in Calls |-> "start"]
  /\ InitLocals
  /\ NoDateCall

\* the new segments are added to the stored list instead of replacing it
TokenizeStep_Extend(c) ==
  /\ pc[c] = "start"
  /\ segments' = [segments EXCEPT ![inst[c]] = segments[inst[c]] \o Tokenize(data[c])]
  /\ result' = [result EXCEPT ![c] = EmptyResult]
  /\ pc' = [pc EXCEPT ![c] = "header"]
  /\ UNCHANGED <<pending, date_str, formatted>>
  /\ UNCHANGED <<data, inst, iter, idx, current_shipment, items>>

\* parse_iftmin up to the construction of result
TokenizeStep(c) ==
  /\ pc[c] = "start"
  /\ segments' = [segments EXCEPT ![inst[c]] = Tokenize(data[c])]
  /\ result' = [result EXCEPT ![c] = EmptyResult]
  /\ pc' = [pc EXCEPT ![c] = "header"]
  /\ UNCHANGED <<pending, date_str, formatted>>
  /\ UNCHANGED <<data, inst, iter, idx, current_shipment, items>>

\* self._parse_header(result)
ParseHeader(c) ==
  /\ pc[c] = "header"
  /\ ~HeaderRaises(segments[inst[c]])
  /\ result' = [result EXCEPT ![c].header = ParseHeaderPass(segments[inst[c]])]
  /\ pc' = [pc EXCEPT ![c] = "parties"]
  /\ UNCHANGED <<pending, date_str, formatted>>
  /\ UNCHANGED <<data, inst, segments, iter, idx, current_shipment, items>>

\* self._parse_header(result) when an index is out of range: the IndexError
\* leaves parse_iftmin and no document is returned
HeaderIndexError(c) ==
  /\ pc[c] = "header"
  /\ HeaderRaises(segments[inst[c]])
  /\ pc' = [pc EXCEPT ![c] = "raised"]
  /\ UNCHANGED <<pending, date_str, formatted>>
  /\ UNCHANGED <<data, inst, segments, result, iter, idx, current_shipment, items>>

\* self._parse_parties(result)
ParseParties(c) ==
  /\ pc[c] = "parties"
  /\ result' = [result EXCEPT ![c].parties = ParsePartiesPass(segments[inst[c]])]
  /\ pc' = [pc EXCEPT ![c] = "shipments"]
  /\ UNCHANGED <<pending, date_str, formatted>>
  /\ UNCHANGED <<data, inst, segments, iter, idx, current_shipment, items>>

\* entry of _parse_shipments: the locals, and the list the for loop walks
BeginShipments(c) ==
  /\ pc[c] = "shipments"
  /\ iter' = [iter EXCEPT ![c] = segments[inst[c]]]
  /\ idx' = [idx EXCEPT ![c] = 1]
  /\ current_shipment' = [current_shipment EXCEPT ![c] = EmptyDict]
  /\ items' = [items EXCEPT ![c] = <<>>]
  /\ pc' = [pc EXCEPT ![c] = "loop"]
  /\ UNCHANGED <<pending, date_str, formatted>>
  /\ UNCHANGED <<data, inst, segments, result>>

AggState(c) == [cur |-> current_shipment[c], items |-> items[c],
                ships |-> result[c].shipments]

\* one iteration of the for loop of _parse_shipments
ShipmentSegment(c) ==
  /\ pc[c] = "loop"
  /\ idx[c] <= Len(iter[c])
  /\ LET st == ShipmentSeg(AggState(c), iter[c][idx[c]]) IN
       /\ current_shipment' = [current_shipment EXCEPT ![c] = st.cur]
       /\ items' = [items EXCEPT ![c] = st.items]
       /\ result' = [result EXCEPT ![c].shipments = st.ships]
  /\ idx' = [idx EXCEPT ![c] = idx[c] + 1]
  /\ UNCHANGED <<pending, date_str, formatted>>
  /\ UNCHANGED <<data, inst, pc, segments, iter>>

\* the loop is over: add the last shipment, return to parse_iftmin
EndShipments(c) ==
  /\ pc[c] = "loop"
  /\ idx[c] > Len(iter[c])
  /\ LET st == LastShipment(AggState(c)) IN
       /\ current_shipment' = [current_shipment EXCEPT ![c] = st.cur]
       /\ items' = [items EXCEPT ![c] = st.items]
       /\ result' = [result EXCEPT ![c].shipments = st.ships]
  /\ pc' = [pc EXCEPT ![c] = "summary"]
  /\ UNCHANGED <<pending, date_str, formatted>>
  /\ UNCHANGED <<data, inst, segments, iter, idx>>

\* self._parse_summary(result); return result
ParseSummary(c) ==
  /\ pc[c] = "summary"
  /\ result' = [result EXCEPT ![c].summary = ParseSummaryPass(segments[inst[c]])]
  /\ pc' = [pc EXCEPT ![c] = "done"]
  /\ UNCHANGED <<pending, date_str, formatted>>
  /\ UNCHANGED <<data, inst, segments, iter, idx, current_shipment, items>>

Next ==
  \E c \in Calls :
    \/ TokenizeStep(c)
    \/ ParseHeader(c)
    \/ HeaderIndexError(c)
    \/ ParseParties(c)
    \/ BeginShipments(c)
    \/ ShipmentSegment(c)
    \/ EndShipments(c)
    \/ ParseSummary(c)

Spec == Init /\ [][Next]_vars

SpecConc == InitConc /\ [][Next]_vars

\* ------------------------------------------------- the passes as a whole ----
RECURSIVE ShipmentsFrom(_, _, _)
ShipmentsFrom(st, segs, i) ==
  IF i > Len(segs) THEN st ELSE ShipmentsFrom(ShipmentSeg(st, segs[i]), segs, i + 1)

\* _parse_shipments over the whole segment list
ParseShipmentsPass(segs) ==
  LastShipment(ShipmentsFrom([cur |-> EmptyDict, items |-> <<>>, ships |-> <<>>],
                             segs, 1)).ships

\* parse_iftmin run alone on a fresh instance, for an input that does not raise
LoneDocument(d) ==
  LET segs == Tokenize(d) IN
  [header |-> ParseHeaderPass(segs), parties |-> ParsePartiesPass(segs),
   shipments |-> ParseShipmentsPass(segs), summary |-> ParseSummaryPass(segs)]

\* ------------------------------------------------ what the input says ----
Last(s) == s[Len(s)]
Shipments(c) == result[c].shipments
Returned(c) == pc[c] = "done"
InputSegs(c) == Tokenize(data[c])

OpenPositions(segs) == {i \in 1..Len(segs) : IsOpen(segs[i])}
NumOpens(segs) == Cardinality(OpenPositions(segs))
NthOpen(segs, n) ==
  CHOOSE i \in OpenPositions(segs) :
    Cardinality({j \in OpenPositions(segs) : j <= i}) = n
NextOpenAfter(segs, i) ==
  LET later == {j \in OpenPositions(segs) : j > i}
  IN IF later = {} THEN Len(segs) + 1
     ELSE CHOOSE j \in later : \A k \in later : j <= k

\* an item-reference segment that carries an identifier, and the identifier
IsItemRef(seg) == StartsWith(seg, P_RFFVP) /\ Len(Split(seg, "+")) > 2
ItemId(seg) == Split(seg, "+")[3]

RECURSIVE ItemsIn(_, _, _)
ItemsIn(segs, lo, hi) ==
  IF lo > hi THEN <<>>
  ELSE (IF IsItemRef(segs[lo]) THEN <<ItemId(segs[lo])>> ELSE <<>>)
         \o ItemsIn(segs, lo + 1, hi)

\* the identifiers read between the n-th open and the next one, in input order
OwnItems(segs, n) ==
  LET o == NthOpen(segs, n) IN ItemsIn(segs, o + 1, NextOpenAfter(segs, o) - 1)

\* the seven kinds of segment that set a field of the open shipment
IsFieldSeg(seg) ==
  /\ ~IsOpen(seg)
  /\ \E p \in {P_NADCN, P_RFFCR, P_RFFTB, P_RFFTE, P_DTM17, P_MEA, P_DIM} :
       StartsWith(seg, p)

NoOpenBefore(segs, i) == \A j \in 1..(i - 1) : ~IsOpen(segs[j])

ItemsOf(s) == IF Has(s, "items") THEN {s.items[k] : k \in 1..Len(s.items)} ELSE {}

\* --------------------------------------------------------------- claims ----

\* C1: the document returned has as many shipments as the input has
\* shipment-open segments (GID+1 or GID+2), none included.
C1_ShipmentCountEqualsOpens ==
  \A c \in Calls : Returned(c) => Len(Shipments(c)) = NumOpens(InputSegs(c))

\* C2: the identifiers read while a shipment is open are the items of the
\* shipment opened by the nearest preceding open, the n-th shipment for the
\* n-th open, in input order.
C2_ItemsInOpeningShipment ==
  \A c \in Calls : Returned(c) =>
    \A n \in 1..NumOpens(InputSegs(c)) :
      OwnItems(InputSegs(c), n) # <<>> =>
        /\ n <= Len(Shipments(c))
        /\ Has(Shipments(c)[n], "items")
        /\ Shipments(c)[n].items = OwnItems(InputSegs(c), n)

\* C3: an identifier that is read only from item-reference segments before the
\* first shipment-open segment is in the items of no shipment of the output.
C3_ItemBeforeOpenDropped ==
  \A c \in Calls : Returned(c) =>
    LET segs == InputSegs(c)
        first == NextOpenAfter(segs, 0)
        before == {ItemId(segs[i]) : i \in {j \in 1..(first - 1) : IsItemRef(segs[j])}}
        after == {ItemId(segs[i]) : i \in {j \in first..Len(segs) : IsItemRef(segs[j])}}
    IN \A x \in before \ after :
         \A k \in 1..Len(Shipments(c)) : x \notin ItemsOf(Shipments(c)[k])

\* C4: a consignee, tracking, order, phone, delivery-date, weight or dimension
\* segment read before any shipment-open segment leaves the aggregator as it
\* was: no record is started and the shipments do not change.
C4_FieldSegNoOpWhenClosed ==
  [][\A c \in Calls :
       (/\ pc[c] = "loop"
        /\ idx'[c] = idx[c] + 1
        /\ NoOpenBefore(iter[c], idx[c])
        /\ IsFieldSeg(iter[c][idx[c]]))
       => /\ current_shipment'[c] = current_shipment[c]
          /\ items'[c] = items[c]
          /\ result'[c].shipments = result[c].shipments]_vars

\* C5: parse_iftmin raises for no string input.
C5_NeverRaises == \A c \in Calls : pc[c] # "raised"

\* C6: when the input has a shipment-open segment, no opened shipment is
\* missing from the output and its last shipment carries exactly the
\* identifiers read since the last open.
C6_LastShipmentFlushed ==
  \A c \in Calls : Returned(c) =>
    LET segs == InputSegs(c) n == NumOpens(segs) IN
    n > 0 =>
      /\ Len(Shipments(c)) >= n
      /\ Has(Last(Shipments(c)), "items")
      /\ Last(Shipments(c)).items = OwnItems(segs, n)

\* C7: a shipment-open segment that directly follows another one appends the
\* first as a shipment with an empty items list and no field but the package
\* count.
C7_ConsecutiveOpensCloseFirst ==
  [][\A c \in Calls :
       (/\ pc[c] = "loop"
        /\ idx'[c] = idx[c] + 1
        /\ idx[c] >= 2
        /\ IsOpen(iter[c][idx[c] - 1])
        /\ IsOpen(iter[c][idx[c]]))
       => /\ Len(result'[c].shipments) = Len(result[c].shipments) + 1
          /\ SubSeq(result'[c].shipments, 1, Len(result[c].shipments))
               = result[c].shipments
          /\ DOMAIN Last(result'[c].shipments) \subseteq {"items", "total_packages"}
          /\ Has(Last(result'[c].shipments), "items")
          /\ Last(result'[c].shipments).items = <<>>]_vars

\* C8: under every interleaving of two calls, each call ends as a lone call on
\* its own input ends: with the same document, or raising where that raises.
C8_ConcurrentCallsIndependent ==
  \A c \in Calls :
    pc[c] \in {"done", "raised"} =>
      IF HeaderRaises(Tokenize(data[c]))
      THEN pc[c] = "raised"
      ELSE pc[c] = "done" /\ result[c] = LoneDocument(data[c])

\* the package counts of the shipment-open segments that carry one, in order
RECURSIVE OpenCounts(_, _)
OpenCounts(segs, i) ==
  IF i > Len(segs) THEN <<>>
  ELSE (IF IsOpen(segs[i]) /\ Len(Split(segs[i], "+")) > 2
        THEN <<Split(Split(segs[i], "+")[3], ":")[1]>> ELSE <<>>)
         \o OpenCounts(segs, i + 1)

RECURSIVE ShipmentCounts(_, _)
ShipmentCounts(ships, i) ==
  IF i > Len(ships) THEN <<>>
  ELSE (IF Has(ships[i], "total_packages") THEN <<ships[i].total_packages>> ELSE <<>>)
         \o ShipmentCounts(ships, i + 1)

\* C9: the shipments sequence only grows at its end, by the record in
\* progress with the accumulated items, and what is in it never changes; the
\* returned shipments are in the order of their opening segments.
C9_ClosedShipmentsImmutable ==
  /\ [][\A c \in Calls :
          (pc[c] = "loop" /\ result'[c].shipments # result[c].shipments)
          => result'[c].shipments =
               Append(result[c].shipments,
                      Put(current_shipment[c], "items", items[c]))]_vars
  /\ [](\A c \in Calls :
          Returned(c) =>
            ShipmentCounts(Shipments(c), 1) = OpenCounts(InputSegs(c), 1))

\* a shipment was closed, a later segment set a field of the next one, and
\* both are returned
C9_Witness ==
  \E c \in Calls :
    /\ Returned(c)
    /\ Len(Shipments(c)) = 2
    /\ ShipmentCounts(Shipments(c), 1) = << <<"2">>, <<"3">> >>
    /\ Has(Shipments(c)[2], "tracking_number")

\* C10: every shipment in the shipments sequence has an items list.
C10_EveryShipmentHasItems ==
  \A c \in Calls :
    \A k \in 1..Len(Shipments(c)) : Has(Shipments(c)[k], "items")

\* two shipments are returned, one with an empty items list, one with items
C10_Witness ==
  \E c \in Calls :
    /\ Returned(c)
    /\ \E j, k \in 1..Len(Shipments(c)) :
         Shipments(c)[j].items = <<>> /\ Shipments(c)[k].items # <<>>

\* -------------------------------------- the four passes, in any order ----
\* the longest message whose passes are run in every order
MaxOrderSegs == 2

OrderMessages == {RawOf(q) : q \in SeqsUpTo(FullCatalog, MaxOrderSegs)}

\* self._parse_header(result): writes into result['header']
RunHeader(res, segs) == [res EXCEPT !.header = HeaderFrom(res.header, segs, 1)]

\* self._parse_parties(result): writes into result['parties']
RunParties(res, segs) == [res EXCEPT !.parties = PartiesFrom(res.parties, segs, 1)]

\* self._parse_shipments(result): appends to result['shipments']
RunShipments(res, segs) ==
  [res EXCEPT !.shipments =
     LastShipment(ShipmentsFrom([cur |-> EmptyDict, items |-> <<>>,
                                 ships |-> res.shipments], segs, 1)).ships]

\* the summary also records that shipments were found
RunSummary_SeesShipments(res, segs) ==
  [res EXCEPT !.summary =
     SummaryFrom(IF res.shipments # <<>>
                 THEN Put(res.summary, "has_shipments", <<"1">>)
                 ELSE res.summary, segs, 1)]

\* self._parse_summary(result): writes into result['summary']
RunSummary(res, segs) == [res EXCEPT !.summary = SummaryFrom(res.summary, segs, 1)]

Passes == {"header", "parties", "shipments", "summary"}

\* lines 15-27 as written: header, parties, shipments, summary
InOrderDocument(segs) ==
  RunSummary(RunShipments(RunParties(RunHeader(EmptyResult, segs), segs), segs), segs)

\* one call, its four passes still to be ordered
InitOrder ==
  /\ \E m \in OrderMessages : data = [c \in Calls |-> IF c = 1 THEN m ELSE <<>>]
  /\ inst = [c \in Calls |-> c]
  /\ pc = [c \in Calls |-> IF c = 1 THEN "start" ELSE "off"]
  /\ InitLocals
  /\ NoDateCall

\* lines 12-20, then the four passes are pending
TokenizeAnyOrder(c) ==
  /\ pc[c] = "start"
  /\ segments' = [segments EXCEPT ![inst[c]] = Tokenize(data[c])]
  /\ result' = [result EXCEPT ![c] = EmptyResult]
  /\ pending' = [pending EXCEPT ![c] = Passes]
  /\ pc' = [pc EXCEPT ![c] = "passes"]
  /\ UNCHANGED <<data, inst, iter, idx, current_shipment, items, date_str, formatted>>

PassFrame == <<data, inst, segments, iter, idx, current_shipment, items,
               date_str, formatted>>

PassHeader(c) ==
  /\ pc[c] = "passes" /\ "header" \in pending[c]
  /\ ~HeaderRaises(segments[inst[c]])
  /\ result' = [result EXCEPT ![c] = RunHeader(result[c], segments[inst[c]])]
  /\ pending' = [pending EXCEPT ![c] = pending[c] \ {"header"}]
  /\ UNCHANGED pc /\ UNCHANGED PassFrame

PassHeaderIndexError(c) ==
  /\ pc[c] = "passes" /\ "header" \in pending[c]
  /\ HeaderRaises(segments[inst[c]])
  /\ pc' = [pc EXCEPT ![c] = "raised"]
  /\ UNCHANGED <<result, pending>> /\ UNCHANGED PassFrame

PassParties(c) ==
  /\ pc[c] = "passes" /\ "parties" \in pending[c]
  /\ result' = [result EXCEPT ![c] = RunParties(result[c], segments[inst[c]])]
  /\ pending' = [pending EXCEPT ![c] = pending[c] \ {"parties"}]
  /\ UNCHANGED pc /\ UNCHANGED PassFrame

PassShipments(c) ==
  /\ pc[c] = "passes" /\ "shipments" \in pending[c]
  /\ result' = [result EXCEPT ![c] = RunShipments(result[c], segments[inst[c]])]
  /\ pending' = [pending EXCEPT ![c] = pending[c] \ {"shipments"}]
  /\ UNCHANGED pc /\ UNCHANGED PassFrame

PassSummary(c) ==
  /\ pc[c] = "passes" /\ "summary" \in pending[c]
  /\ result' = [result EXCEPT ![c] = RunSummary(result[c], segments[inst[c]])]
  /\ pending' = [pending EXCEPT ![c] = pending[c] \ {"summary"}]
  /\ UNCHANGED pc /\ UNCHANGED PassFrame

\* return result
ReturnResult(c) ==
  /\ pc[c] = "passes" /\ pending[c] = {}
  /\ pc' = [pc EXCEPT ![c] = "done"]
  /\ UNCHANGED <<result, pending>> /\ UNCHANGED PassFrame

NextOrder ==
  \E c \in Calls :
    \/ TokenizeAnyOrder(c)
    \/ PassHeader(c)
    \/ PassHeaderIndexError(c)
    \/ PassParties(c)
    \/ PassShipments(c)
    \/ PassSummary(c)
    \/ ReturnResult(c)

SpecOrder == InitOrder /\ [][NextOrder]_vars

\* C11: a pass changes its own section of the result and nothing else, the
\* segment list included, and whatever the order of the four passes the
\* document returned is the one the order of the code gives.
C11_PassesDoNotInteract ==
  /\ [][\A c \in Calls :
          (pc[c] = "passes" /\ pending'[c] # pending[c])
          => /\ segments' = segments
             /\ \A q \in Passes :
                  q \notin (pending[c] \ pending'[c]) => result'[c][q] = result[c][q]]_vars
  /\ [](\A c \in Calls :
          Returned(c) => result[c] = InOrderDocument(InputSegs(c)))

\* the summary and shipments passes ran before the header pass and filled
\* their sections
C11_Witness ==
  \E c \in Calls :
    /\ pc[c] = "passes"
    /\ pending[c] = {"header"}
    /\ result[c].summary # EmptyDict
    /\ result[c].shipments # <<>>

\* ------------------------------------------------------ _format_date ----
\* the longest argument of _format_date
MaxDateLen == 8

DateAlphabet == {"0", "1"}
SampleDate == <<"2", "0", "2", "5", "1", "0", "1", "7">>
SampleFormatted == <<"1", "7", ".", "1", "0", ".", "2", "0", "2", "5">>

DateStrings == SeqsUpTo(DateAlphabet, MaxDateLen) \cup {SampleDate}

\* a shipment with a delivery-date segment that carries d after its qualifier
DateMessage(d) ==
  SegOpenA \o <<"'">> \o P_DTM17 \o <<":">> \o d \o <<"'">>

\* _format_date is called on date_str, and the message that carries date_str
\* is parsed
InitDate ==
  /\ date_str \in DateStrings
  /\ formatted = <<>>
  /\ data = [c \in Calls |-> IF c = 1 THEN DateMessage(date_str) ELSE <<>>]
  /\ inst = [c \in Calls |-> c]
  /\ pc = [c \in Calls |-> IF c = 1 THEN "start" ELSE "off"]
  /\ InitLocals

\* self._format_date(...), on the argument and then on what it returned
FormatDateCall ==
  /\ Len(formatted) < 2
  /\ formatted' = Append(formatted,
                         FormatDate(IF formatted = <<>> THEN date_str
                                    ELSE formatted[Len(formatted)]))
  /\ UNCHANGED <<data, inst, pc, segments, result, iter, idx, current_shipment,
                 items, pending, date_str>>

NextDate ==
  \/ FormatDateCall
  \/ \E c \in Calls :
       \/ TokenizeStep(c)
       \/ ParseHeader(c)
       \/ ParseParties(c)
       \/ BeginShipments(c)
       \/ ShipmentSegment(c)
       \/ EndShipments(c)
       \/ ParseSummary(c)

SpecDate == InitDate /\ [][NextDate]_vars

\* C12: for an argument of 8 characters, _format_date applied to its own
\* result returns that result.
C12_FormatDateIdempotent ==
  (Len(date_str) = 8 /\ Len(formatted) = 2) => formatted[2] = formatted[1]

\* day, month, year of an 8-character year-month-day string, position by
\* position; a shorter string as it is
DayMonthYear(d) ==
  IF Len(d) = 8
  THEN <<d[7], d[8], ".", d[5], d[6], ".", d[1], d[2], d[3], d[4]>>
  ELSE d

\* C13: _format_date turns the 8 characters YYYYMMDD into DD.MM.YYYY and
\* returns a shorter argument unchanged, and the DTM+17 segment that carries
\* the string sets the delivery date of the open shipment to that value.
C13_FormatDateDayMonthYear ==
  Len(date_str) <= 8 =>
    /\ formatted # <<>> => formatted[1] = DayMonthYear(date_str)
    /\ Returned(1) =>
         /\ Len(Shipments(1)) = 1
         /\ Has(Shipments(1)[1], "delivery_date")
         /\ Shipments(1)[1].delivery_date = DayMonthYear(date_str)

\* 20251017 was formatted and parsed as delivery date 17.10.2025
C13_Witness ==
  /\ date_str = SampleDate
  /\ formatted # <<>> /\ formatted[1] = SampleFormatted
  /\ Returned(1)
  /\ Shipments(1)[1].delivery_date = SampleFormatted

\* ----------------------------------------------------- _parse_address ----
\* the most fields a party segment has after its role
MaxAddrFields == 9

RoleSF == <<"S", "F">>
RoleIV == <<"I", "V">>
RoleCN == <<"C", "N">>
Roles == {RoleSF, RoleIV, RoleCN}

FieldValues == {<<>>, <<"A", ":", "B">>}
NameValues == FieldValues \cup {DefaultShipper, DefaultInvoicee}

\* the field lists after the role: the third is the name (parts[4])
AddrTails ==
  UNION {{[i \in 1..k |-> IF i = 3 THEN n ELSE f[i]] :
            f \in [1..k -> FieldValues], n \in NameValues} : k \in 0..MaxAddrFields}

RECURSIVE PlusFields(_)
PlusFields(q) == IF q = <<>> THEN <<>> ELSE <<"+">> \o Head(q) \o PlusFields(Tail(q))

\* a party segment of the role with the fields; the consignee in a shipment
AddrMessage(role, tail) ==
  (IF role = RoleCN THEN SegOpenA \o <<"'">> ELSE <<>>)
    \o <<"N", "A", "D", "+">> \o role \o PlusFields(tail) \o <<"'">>

AddrMessages == {AddrMessage(role, tail) : role \in Roles, tail \in AddrTails}

InitAddr ==
  /\ \E m \in AddrMessages : data = [c \in Calls |-> IF c = 1 THEN m ELSE <<>>]
  /\ inst = [c \in Calls |-> c]
  /\ pc = [c \in Calls |-> IF c = 1 THEN "start" ELSE "off"]
  /\ InitLocals
  /\ NoDateCall

\* parse_iftmin on a message without a UNB segment
NextParse ==
  \E c \in Calls :
    \/ TokenizeStep(c)
    \/ ParseHeader(c)
    \/ ParseParties(c)
    \/ BeginShipments(c)
    \/ ShipmentSegment(c)
    \/ EndShipments(c)
    \/ ParseSummary(c)

SpecAddr == InitAddr /\ [][NextParse]_vars

\* the field list of the party segment of call c, its role, and the Address
\* the call returned for it
PartyParts(c) == Split(Last(InputSegs(c)), "+")
PartyRole(c) == PartyParts(c)[2]
PartyAddress(c) ==
  IF PartyRole(c) = RoleSF THEN result[c].parties.shipper
  ELSE IF PartyRole(c) = RoleIV THEN result[c].parties.invoicee
  ELSE Shipments(c)[1].consignee

\* the number of fields an attribute needs
FieldsNeeded(k) ==
  CASE k = "name" -> 5 [] k = "street" -> 6 [] k = "city" -> 7
    [] k = "district" -> 8 [] k = "postal_code" -> 9 [] k = "country" -> 10

AddressKeys == {"name", "street", "city", "district", "postal_code", "country"}

\* C14: for a field list of any length the Address has exactly the attributes
\* whose positional field exists: name from 5 fields, street from 6, city from
\* 7, district from 8, postal_code from 9, country from 10; the others are
\* absent, and the call returns.
C14_AddressAttributesByLength ==
  \A c \in Calls :
    /\ pc[c] # "raised"
    /\ Returned(c) =>
         DOMAIN PartyAddress(c)
           = {k \in AddressKeys : Len(PartyParts(c)) >= FieldsNeeded(k)}

\* a consignee segment of 7 fields gave name, street and city and no more
C14_Witness ==
  \E c \in Calls :
    /\ Returned(c)
    /\ PartyRole(c) = RoleCN
    /\ Len(PartyParts(c)) = 7
    /\ DOMAIN PartyAddress(c) = {"name", "street", "city"}

DefaultOf(role) == IF role = RoleSF THEN DefaultShipper ELSE DefaultInvoicee

\* C15: for a shipper or invoicee segment with a name field, the name of the
\* Address is the default when the field is empty and the field itself when
\* it is not, whether or not it differs from the default.
C15_DefaultNameOnlyWhenBlank ==
  \A c \in Calls :
    (Returned(c) /\ PartyRole(c) \in {RoleSF, RoleIV} /\ Len(PartyParts(c)) >= 5) =>
      /\ Has(PartyAddress(c), "name")
      /\ PartyParts(c)[5] = <<>> => PartyAddress(c).name = DefaultOf(PartyRole(c))
      /\ PartyParts(c)[5] # <<>> => PartyAddress(c).name = PartyParts(c)[5]

\* a shipper segment with a blank name got the default name
C15_Witness ==
  \E c \in Calls :
    /\ Returned(c)
    /\ PartyRole(c) = RoleSF
    /\ Len(PartyParts(c)) >= 5
    /\ PartyParts(c)[5] = <<>>
    /\ PartyAddress(c).name = DefaultShipper

\* --------------------------------------------------------- dimensions ----
\* the most sub-fields a dimension segment has after the unit code
MaxDims == 3

D100 == <<"1", "0", ".", "0">>
D500 == <<"5", "0", ".", "0">>
D120 == <<"1", "2", ".", "0">>
SampleDimensions == <<"1", "0", ".", "0", "x", "5", "0", ".", "0", "x", "1", "2", ".", "0", " ", "c", "m">>

DimValues == {<<>>, D100, D500, D120}
DimLists == SeqsUpTo(DimValues, MaxDims)

RECURSIVE ColonFields(_)
ColonFields(q) == IF q = <<>> THEN <<>> ELSE <<":">> \o Head(q) \o ColonFields(Tail(q))

\* a shipment with a dimension segment that carries the sub-fields q
DimMessage(q) == SegOpenA \o <<"'">> \o P_DIM \o ColonFields(q) \o <<"'">>

InitDims ==
  /\ \E q \in DimLists : data = [c \in Calls |-> IF c = 1 THEN DimMessage(q) ELSE <<>>]
  /\ inst = [c \in Calls |-> c]
  /\ pc = [c \in Calls |-> IF c = 1 THEN "start" ELSE "off"]
  /\ InitLocals
  /\ NoDateCall

SpecDims == InitDims /\ [][NextParse]_vars

\* the sub-fields with an x between one and the next
RECURSIVE CrossJoined(_)
CrossJoined(q) ==
  IF Len(q) = 1 THEN q[1] ELSE q[1] \o <<"x">> \o CrossJoined(Tail(q))

\* C16: the dimensions of the open shipment are the sub-fields after the
\* first, joined with "x" and followed by " cm", and the empty string when
\* there is none.
C16_DimensionsJoined ==
  \A c \in Calls : Returned(c) =>
    \A q \in DimLists : data[c] = DimMessage(q) =>
      /\ Len(Shipments(c)) = 1
      /\ Has(Shipments(c)[1], "dimensions")
      /\ Shipments(c)[1].dimensions
           = IF q = <<>> THEN <<>> ELSE CrossJoined(q) \o <<" ", "c", "m">>

\* 10.0:50.0:12.0 gave "10.0x50.0x12.0 cm"
C16_Witness ==
  \E c \in Calls :
    /\ Returned(c)
    /\ data[c] = DimMessage(<<D100, D500, D120>>)
    /\ Shipments(c)[1].dimensions = SampleDimensions

\* ------------------------------------------------- open, unrecognized ----
\* C17: after every shipment-open segment a shipment is open (the record is
\* what line 68 takes for an open one), the record has no field but the
\* package count, the item accumulator is empty, and the package count, when
\* the segment has the sub-field, is its portion before the first ":".
C17_OpenStartsFreshRecord ==
  [][\A c \in Calls :
       (/\ pc[c] = "loop"
        /\ idx'[c] = idx[c] + 1
        /\ IsOpen(iter[c][idx[c]]))
       => LET parts == Split(iter[c][idx[c]], "+") IN
          /\ Truthy(current_shipment'[c])
          /\ DOMAIN current_shipment'[c] \subseteq {"total_packages"}
          /\ items'[c] = <<>>
          /\ Len(parts) > 2 =>
               /\ Has(current_shipment'[c], "total_packages")
               /\ current_shipment'[c].total_packages = BeforeColon(parts[3])]_vars

\* the prefixes the four passes test
RecognizedPrefixes ==
  {P_UNB, P_BGM, P_DTM9, P_CUX, P_NADSF, P_NADIV, P_LOC198, P_GID1, P_GID2,
   P_NADCN, P_RFFCR, P_RFFTB, P_RFFTE, P_DTM17, P_MEA, P_DIM, P_RFFVP,
   P_CNT2, P_CNT8}

IsUnrecognized(seg) == \A p \in RecognizedPrefixes : ~StartsWith(seg, p)
IsRecognized(seg) == ~IsUnrecognized(seg)

\* the message without its unrecognized segments
RecognizedOnly(segs) == SelectSeq(segs, IsRecognized)

\* C18: a segment that matches no recognized prefix leaves the open shipment,
\* the item accumulator and the shipments as they are, and the call ends as
\* the call on the message without such segments ends: with the same
\* document, or raising where that raises.
C18_UnrecognizedIgnored ==
  /\ [][\A c \in Calls :
          (/\ pc[c] = "loop"
           /\ idx'[c] = idx[c] + 1
           /\ IsUnrecognized(iter[c][idx[c]]))
          => /\ current_shipment'[c] = current_shipment[c]
             /\ items'[c] = items[c]
             /\ result'[c] = result[c]]_vars
  /\ [](\A c \in Calls :
          LET kept == RecognizedOnly(InputSegs(c)) IN
          /\ pc[c] = "raised" => HeaderRaises(kept)
          /\ Returned(c) => ~HeaderRaises(kept) /\ result[c] = InOrderDocument(kept))

\* an unrecognized segment stood between an open and its item, and the
\* shipment was returned with the item
C18_Witness ==
  \E c \in Calls :
    /\ Returned(c)
    /\ \E i \in 2..(Len(InputSegs(c)) - 1) :
         /\ IsOpen(InputSegs(c)[i - 1])
         /\ IsUnrecognized(InputSegs(c)[i])
         /\ IsItemRef(InputSegs(c)[i + 1])
    /\ Len(Shipments(c)) = 1
    /\ Shipments(c)[1].items # <<>>

\* ------------------------------------------- one instance, two calls ----
\* call 1 runs, call 2 waits for it on the same instance
InitReuse ==
  /\ data \in [Calls -> ConcMessages]
  /\ inst = [c \in Calls |-> 1]
  /\ pc = [c \in Calls |-> IF c = 1 THEN "start" ELSE "queued"]
  /\ InitLocals
  /\ NoDateCall

\* the next parse_iftmin on the instance, once the earlier call has returned
\* or raised
StartQueued(c) ==
  /\ pc[c] = "queued"
  /\ \A o \in Calls \ {c} : inst[o] = inst[c] => pc[o] \in {"done", "raised"}
  /\ pc' = [pc EXCEPT ![c] = "start"]
  /\ UNCHANGED <<data, inst, segments, result, iter, idx, current_shipment,
                 items, pending, date_str, formatted>>

NextReuse ==
  \E c \in Calls :
    \/ StartQueued(c)
    \/ TokenizeStep(c)
    \/ ParseHeader(c)
    \/ HeaderIndexError(c)
    \/ ParseParties(c)
    \/ BeginShipments(c)
    \/ ShipmentSegment(c)
    \/ EndShipments(c)
    \/ ParseSummary(c)

SpecReuse == InitReuse /\ [][NextReuse]_vars

\* C19: the later call on a used instance works on its own segment list
\* only, and ends as a call on a fresh instance ends: with the same
\* document, or raising where that raises.
C19_SequentialReuseSafe ==
  /\ pc[2] \notin {"queued", "start"} => segments[inst[2]] = InputSegs(2)
  /\ pc[2] \in {"done", "raised"} =>
       IF HeaderRaises(InputSegs(2))
       THEN pc[2] = "raised"
       ELSE pc[2] = "done" /\ result[2] = LoneDocument(data[2])

\* the earlier call returned shipments and a header, the later call on the
\* same instance returned neither
C19_Witness ==
  /\ inst[1] = inst[2]
  /\ Returned(1) /\ Returned(2)
  /\ Shipments(1) # <<>> /\ result[1].header # EmptyDict
  /\ Shipments(2) = <<>> /\ result[2].header = EmptyDict
  /\ InputSegs(2) # <<>>
====
